---- MODULE Spec2Model ----
(***************************************************************************)
(* The sup-cli daemon (Daemon class): tasks and services with dependencies, *)
(* start / stop / restart commands from clients on the control socket,     *)
(* child exits, backoff restart timers, health polls and shutdown.          *)
(*                                                                         *)
(* Node runs the daemon on one thread: a handler runs until it awaits.     *)
(* Each action below is one such run: from an event (a command line read   *)
(* from a socket, a child's exit, a timer, a poll of waitForReady) to the  *)
(* next await of every async call the event resumes.                       *)
(*                                                                         *)
(* Task names and service names are taken to be disjoint.                  *)
(***************************************************************************)
EXTENDS Integers, Sequences, FiniteSets, Bags, TLC

\* ------------------------------------------------------------------ bounds
MaxSpawns == 3      \* child processes spawned in one behaviour
MaxCmds == 1        \* requests from outside in one behaviour: command lines and signals
MaxEdges == 3       \* dependencies in one of the enumerated graphs
MaxLines == 2       \* lines read from the connection observed in one behaviour
MaxLogLines == 3    \* lines in a log file
MaxNameLen == 3     \* pieces of text in a name
MaxDepth == 2       \* directories in the path of a project directory

\* ------------------------------------------------------- program constants
DefaultMaxRestarts == 10
BaseDelay == 1000
MaxDelay == 30000

\* --------------------------------------------------------------- universe
Ghost == "ghost"                \* a name no task or service declares
NoTarget == "-"                 \* onlyService undefined / a command without a name
NoProc == 0                     \* process: null, pid: null
NullCode == -1                  \* exit code null (the child died of a signal)
Unset == -2                     \* maxRestarts undefined; no restart timer set yet
NoErr == "-"                    \* topoSort did not throw

Range(s) == {s[i] : i \in 1..Len(s)}

VARIABLES
    config,         \* Config and onlyService, fixed at construction
    services,       \* Daemon.services: name -> ManagedService (process, state)
    tasks,          \* Daemon.tasks: name -> ManagedTask (process, state)
    procs,          \* the ChildProcess objects whose exit/error event is still to come
    threads,        \* the suspended async calls (a bag of frames)
    timers,         \* the pending restart setTimeout callbacks (a bag of service names)
    pendingDown,    \* the setImmediate callbacks queued by down commands
    shuttingDown,   \* Daemon.shuttingDown
    daemon,         \* "up", or "exited" once the daemon process has ended
    exitCode,       \* the code the daemon process exited with
    boot,           \* start()'s call of startAllServices: "pending", "running", "done", "failed"
    bootError,      \* the error that call threw
    nspawn,         \* history: how many times each name's command was spawned
    bootSpawns,     \* history: the names spawned by start()'s startAllServices, in order
    everReady,      \* history: the names that have reached their ready state
    spawnedEarly,   \* history: the names spawned while a direct dependency had never been ready
    lastProbe,      \* history: what the last health poll found for each probed service
    paths,          \* the last call of the path functions: arguments and results
    logFiles,       \* the files of .sup/logs: name -> text, a sequence of characters
    received,       \* the lines read from the connection observed, in order
    sent,           \* the response lines written to it, in order, each with the number
                    \* of the line it answers
    server,         \* Daemon.server: "none", "listening", or "closed"
    intervals,      \* whether the health check and status write intervals are set
    env,            \* what start() finds: whether a daemon accepts connections on the
                    \* socket file, and the services whose health check port is bound
    delay,          \* the delay, in ms, of the restart timer set last
    socketFile,     \* whether the socket file .sup/sup.sock exists
    statusFile,     \* the content of .sup/status.json: services and tasks of the last write
    cmds,           \* how many command lines and signals have arrived
    lastExit        \* history: the last exit or error event of a child: name and code

vars == <<config, services, tasks, procs, threads, timers, pendingDown, shuttingDown,
          daemon, boot, bootError, nspawn, bootSpawns, everReady, spawnedEarly,
          lastProbe, paths, logFiles, received, sent, socketFile, statusFile, exitCode, cmds,
          lastExit, server, intervals, env, delay>>

\* the keys of Daemon.tasks and Daemon.services, in insertion order
TaskNames == config.tasks
ServiceNames == config.services
Tasks == Range(TaskNames)
Services == Range(ServiceNames)
Declared == Tasks \cup Services

\* task?.config.dependsOn ?? svc?.config.dependsOn ?? []
DependsOn(name) == IF name \in Declared THEN config.dependsOn[name] ELSE <<>>

\* ---------------------------------------------------------------- topoSort
\* st = [result, visited, visiting, err]; err is the name the error message carries
RECURSIVE visit(_, _), visitDeps(_, _, _)
visitDeps(st, deps, i) ==
    IF i > Len(deps) \/ st.err # NoErr THEN st
    ELSE visitDeps(visit(st, deps[i]), deps, i + 1)

\* visit with a fault: a name is pushed when it is entered, before its dependencies
visitPreorder(st, name) ==
    IF st.err # NoErr THEN st
    ELSE IF name \in st.visited THEN st
    ELSE IF name \in st.visiting THEN [st EXCEPT !.err = name]
    ELSE LET st1 == [st EXCEPT !.visiting = @ \cup {name}, !.result = Append(@, name)]
             st2 == visitDeps(st1, DependsOn(name), 1)
         IN IF st2.err # NoErr THEN st2
            ELSE [st2 EXCEPT !.visiting = @ \ {name}, !.visited = @ \cup {name}]

visit(st, name) ==
    IF st.err # NoErr THEN st
    ELSE IF name \in st.visited THEN st
    ELSE IF name \in st.visiting THEN [st EXCEPT !.err = name]
    ELSE LET st1 == [st EXCEPT !.visiting = @ \cup {name}]
             st2 == visitDeps(st1, DependsOn(name), 1)
         IN IF st2.err # NoErr THEN st2
            ELSE [st2 EXCEPT !.visiting = @ \ {name},
                             !.visited = @ \cup {name},
                             !.result = Append(@, name)]

topoSort ==
    visitDeps([result |-> <<>>, visited |-> {}, visiting |-> {}, err |-> NoErr],
              TaskNames \o ServiceNames, 1)

\* ------------------------------------------------------- getTransitiveDeps
RECURSIVE closureVisit(_, _), closureDeps(_, _, _)
closureDeps(result, deps, i) ==
    IF i > Len(deps) THEN result
    ELSE IF deps[i] \in result THEN closureDeps(result, deps, i + 1)
    ELSE closureDeps(closureVisit(result \cup {deps[i]}, deps[i]), deps, i + 1)

closureVisit(result, n) == closureDeps(result, DependsOn(n), 1)

getTransitiveDeps(name) == closureVisit({}, name)


\* ------------------------------------------------------------------ paths
\* A path or a name is a sequence of pieces of text: the separator, the
\* directory entries dot-dot, and pieces without a separator.
Sep == "/"
DotDot == ".."
\* process.cwd()
ProcessCwd == <<Sep, "home">>

\* the segments between the separators
RECURSIVE segments(_)
segments(p) ==
    IF \A i \in 1..Len(p) : p[i] # Sep THEN <<p>>
    ELSE LET i == CHOOSE j \in 1..Len(p) : p[j] = Sep /\ \A k \in 1..(j - 1) : p[k] # Sep
         IN <<SubSeq(p, 1, i - 1)>> \o segments(SubSeq(p, i + 1, Len(p)))

\* normalizeString of path.resolve: empty segments dropped, dot-dot takes the
\* segment before it away (nothing at the root)
RECURSIVE normalize(_, _)
normalize(segs, done) ==
    IF segs = << >> THEN done
    ELSE IF Head(segs) = << >> THEN normalize(Tail(segs), done)
    ELSE IF Head(segs) = <<DotDot>>
         THEN normalize(Tail(segs), IF done = << >> THEN done ELSE SubSeq(done, 1, Len(done) - 1))
    ELSE normalize(Tail(segs), Append(done, Head(segs)))

\* the absolute path of the segments
RECURSIVE render(_)
render(segs) == IF segs = << >> THEN << >> ELSE <<Sep>> \o Head(segs) \o render(Tail(segs))

IsAbsolute(p) == Len(p) > 0 /\ p[1] = Sep

\* path.resolve(from, to)
resolve(from, to) ==
    LET whole == IF IsAbsolute(to) THEN to
                 ELSE IF IsAbsolute(from) THEN from \o <<Sep>> \o to
                 ELSE ProcessCwd \o <<Sep>> \o from \o <<Sep>> \o to
        segs == normalize(segments(whole), << >>)
    IN IF segs = << >> THEN <<Sep>> ELSE render(segs)

getSupDir(cwd) == resolve(cwd, <<".sup">>)
getSocketPath(cwd) == resolve(getSupDir(cwd), <<"sup.sock">>)
getStatusPath(cwd) == resolve(getSupDir(cwd), <<"status.json">>)
getLogsDir(cwd) == resolve(getSupDir(cwd), <<"logs">>)
getLogPath(service, cwd) == resolve(getLogsDir(cwd), service \o <<".log">>)

NoCall == [fn |-> "none"]

\* ------------------------------------------------------------------ state
\* The state as one record, so that a handler is a function from state to state.
World ==
    [services |-> services, tasks |-> tasks, procs |-> procs, threads |-> threads,
     timers |-> timers, pendingDown |-> pendingDown, shuttingDown |-> shuttingDown,
     daemon |-> daemon, boot |-> boot, bootError |-> bootError, nspawn |-> nspawn,
     bootSpawns |-> bootSpawns, everReady |-> everReady, spawnedEarly |-> spawnedEarly,
     lastProbe |-> lastProbe, socketFile |-> socketFile, statusFile |-> statusFile,
     exitCode |-> exitCode, sent |-> sent, logFiles |-> logFiles, server |-> server,
     intervals |-> intervals, delay |-> delay]

SetWorld(W) ==
    /\ services' = W.services
    /\ tasks' = W.tasks
    /\ procs' = W.procs
    /\ threads' = W.threads
    /\ timers' = W.timers
    /\ pendingDown' = W.pendingDown
    /\ shuttingDown' = W.shuttingDown
    /\ daemon' = W.daemon
    /\ boot' = W.boot
    /\ bootError' = W.bootError
    /\ nspawn' = W.nspawn
    /\ bootSpawns' = W.bootSpawns
    /\ everReady' = W.everReady
    /\ spawnedEarly' = W.spawnedEarly
    /\ lastProbe' = W.lastProbe
    /\ socketFile' = W.socketFile
    /\ statusFile' = W.statusFile
    /\ exitCode' = W.exitCode
    /\ sent' = W.sent
    /\ logFiles' = W.logFiles
    /\ server' = W.server
    /\ intervals' = W.intervals
    /\ delay' = W.delay
    /\ env' = env
    /\ paths' = paths
    /\ config' = config

RECURSIVE SumOver(_, _)
SumOver(f, S) == IF S = {} THEN 0 ELSE LET x == CHOOSE y \in S : TRUE
                                       IN f[x] + SumOver(f, S \ {x})
Spawned(W) == SumOver(W.nspawn, Declared)

NoError == [type |-> "none", name |-> NoTarget]
Error(type, name) == [type |-> type, name |-> name]

\* owners of an async call chain
BootOwner == [kind |-> "boot", id |-> 0]
TimerOwner == [kind |-> "timer", id |-> 0]
ShutdownOwner == [kind |-> "shutdown", id |-> 0]
HealthOwner == [kind |-> "health", id |-> 0]
\* the data handler of a client that sends its c-th line and disconnects at once
ClientOwner(c) == [kind |-> "client", id |-> c]
\* the data handler of the connection observed, which stays open
ConnOwner == [kind |-> "client", id |-> 0]

\* A frame is one async call chain: todo is what it still has to call (the head
\* is the call in progress), pc where that call is suspended.
Op(fn, name) == [fn |-> fn, name |-> name]
Frame(owner, todo) == [owner |-> owner, todo |-> todo, pc |-> "call", k |-> 0, child |-> NoProc]
Park(W, f) == [W EXCEPT !.threads = @ (+) SetToBag({f})]
Unpark(W, f) == [W EXCEPT !.threads = @ (-) SetToBag({f})]
Return(f) == [f EXCEPT !.todo = Tail(@), !.pc = "call", !.k = 0, !.child = NoProc]

\* ------------------------------------------------- getStatusData, writeStatus
\* {...managed.state} of every service and task (the timestamps left out)
getStatusData(svcs, tsks) ==
    [services |-> [s \in DOMAIN svcs |->
                    [status |-> svcs[s].status, pid |-> svcs[s].pid,
                     restarts |-> svcs[s].restarts, lastError |-> svcs[s].lastError]],
     tasks |-> [t \in DOMAIN tsks |->
                    [status |-> tsks[t].status, pid |-> tsks[t].pid,
                     exitCode |-> tsks[t].exitCode, lastError |-> tsks[t].lastError]]]

\* the data is taken when writeStatus is called
writeStatus(W) == [W EXCEPT !.statusFile = getStatusData(W.services, W.tasks)]

\* ---------------------------------------------------- emergencyKillChildren
\* emergencyKillChildren with a fault: the loop over the tasks is missing
emergencyKillServices(W) ==
    LET pids == {W.services[s].pid : s \in DOMAIN W.services}
    IN [W EXCEPT !.procs = [c \in DOMAIN @ |->
                    IF c \in pids /\ c # NoProc THEN [@[c] EXCEPT !.sig = "kill"] ELSE @[c]],
                 !.socketFile = FALSE]

\* SIGKILL to every pid the maps hold, then the socket file is unlinked
emergencyKillChildren(W) ==
    LET pids == {W.services[s].pid : s \in DOMAIN W.services}
                    \cup {W.tasks[t].pid : t \in DOMAIN W.tasks}
    IN [W EXCEPT !.procs = [c \in DOMAIN @ |->
                    IF c \in pids /\ c # NoProc THEN [@[c] EXCEPT !.sig = "kill"] ELSE @[c]],
                 !.socketFile = FALSE]

\* the uncaughtException / unhandledRejection handlers of start()
fatal(W) == [emergencyKillChildren(W) EXCEPT !.daemon = "exited", !.exitCode = 1]

RECURSIVE Advance(_, _), waitForReady(_, _), startAllServices(_, _, _), stopAllServices(_, _),
          handleCommand(_, _, _)

\* ------------------------------------------------------------ response lines
Ok == [ok |-> TRUE]
OkData(data) == [ok |-> TRUE, data |-> data]
Fail(err) == [ok |-> FALSE, error |-> err]
\* `${JSON.stringify(undefined)}`: the text undefined, which is not JSON
Undefined == [text |-> "undefined"]

\* the write of the response to the line op, unless the socket is destroyed
Respond(op, body) == [fn |-> "respond", name |-> NoTarget, id |-> op.id, body |-> body]
write(W, f, op, body) ==
    IF f.owner = ConnOwner THEN [W EXCEPT !.sent = Append(@, [id |-> op.id, body |-> body])]
    ELSE W

\* the chain returned to its caller
Finish(W, f) ==
    CASE f.owner.kind = "boot" -> [W EXCEPT !.boot = "done"]
      [] f.owner.kind = "shutdown" -> [W EXCEPT !.daemon = "exited", !.exitCode = 0]
      [] OTHER -> W

\* the chain threw: start()'s caller exits the process, a command's error goes
\* into its response and the data handler goes on to the next line, a restart
\* timer's is logged, shutdown()'s is a rejection nobody handles
Throw(W, f, err) ==
    CASE f.owner.kind = "boot" ->
            [W EXCEPT !.boot = "failed", !.bootError = err, !.daemon = "exited",
                      !.exitCode = 1]
      [] f.owner.kind = "shutdown" -> fatal(W)
      [] f.owner.kind = "client" ->
            LET i == CHOOSE j \in 1..Len(f.todo) :
                        /\ f.todo[j].fn = "respond"
                        /\ \A k \in 1..(j - 1) : f.todo[k].fn # "respond"
            IN Advance(write(W, f, f.todo[i], Fail(err)),
                       [f EXCEPT !.todo = SubSeq(@, i + 1, Len(@)), !.pc = "call", !.k = 0,
                                 !.child = NoProc])
      [] OTHER -> W

\* ------------------------------------------------------------------ spawn
\* createWriteStream(logPath, {flags: 'a'}): the file is there from now on
NoFiles == << >>
createWriteStream(files, name) == IF name \in DOMAIN files THEN files ELSE (name :> << >>) @@ files

NewChild(W) == Spawned(W) + 1

\* SpawnService with a fault: a start resets the restart count
SpawnServiceReset(W, name, owner) ==
    LET id == NewChild(W)
    IN [W EXCEPT !.procs = (id :> [name |-> name, sig |-> "none", ok |-> config.cwdOk[name]]) @@ @,
                 !.logFiles = createWriteStream(@, name),
                 !.services[name].process = id,
                 !.services[name].status = "starting",
                 !.services[name].pid = IF config.cwdOk[name] THEN id ELSE NoProc,
                 !.services[name].restarts = 0,
                 !.nspawn[name] = @ + 1,
                 !.spawnedEarly = IF Range(DependsOn(name)) \subseteq W.everReady
                                  THEN @ ELSE @ \cup {name},
                 !.bootSpawns = IF owner.kind = "boot" THEN Append(@, name) ELSE @]

SpawnService(W, name, owner) ==
    LET id == NewChild(W)
    IN [W EXCEPT !.procs = (id :> [name |-> name, sig |-> "none", ok |-> config.cwdOk[name]]) @@ @,
                 !.logFiles = createWriteStream(@, name),
                 !.services[name].process = id,
                 !.services[name].status = "starting",
                 !.services[name].pid = IF config.cwdOk[name] THEN id ELSE NoProc,
                 !.nspawn[name] = @ + 1,
                 !.spawnedEarly = IF Range(DependsOn(name)) \subseteq W.everReady
                                  THEN @ ELSE @ \cup {name},
                 !.bootSpawns = IF owner.kind = "boot" THEN Append(@, name) ELSE @]

SpawnTask(W, name, owner) ==
    LET id == NewChild(W)
    IN [W EXCEPT !.procs = (id :> [name |-> name, sig |-> "none", ok |-> config.cwdOk[name]]) @@ @,
                 !.logFiles = createWriteStream(@, name),
                 !.tasks[name].status = "running",
                 !.tasks[name].process = id,
                 !.tasks[name].pid = IF config.cwdOk[name] THEN id ELSE NoProc,
                 !.nspawn[name] = @ + 1,
                 !.spawnedEarly = IF Range(DependsOn(name)) \subseteq W.everReady
                                  THEN @ ELSE @ \cup {name},
                 !.bootSpawns = IF owner.kind = "boot" THEN Append(@, name) ELSE @]

\* ------------------------------------------------------------ waitForReady
\* ReadyNow with a fault: a service counts as ready as soon as it is spawned
ReadyNowStarting(W, name) ==
    IF name \in Tasks
    THEN CASE W.tasks[name].status = "completed" -> "ready"
           [] W.tasks[name].status = "failed" -> "failed"
           [] OTHER -> "wait"
    ELSE IF name \in Services /\ W.services[name].status \in {"healthy", "starting"}
         THEN "ready" ELSE "wait"

\* what one poll of waitForReady(name) sees: "ready", "failed" (throws) or "wait"
ReadyNow(W, name) ==
    IF name \in Tasks
    THEN CASE W.tasks[name].status = "completed" -> "ready"
           [] W.tasks[name].status = "failed" -> "failed"
           [] OTHER -> "wait"
    ELSE IF name \in Services /\ W.services[name].status = "healthy" THEN "ready" ELSE "wait"

\* ------------------------------------------- startService, runTask, stopService
\* Advance runs the chain f (not parked) until its next await; waitForReady runs
\* the loop of the wait the chain is in, from a check of the status on. A wait
\* whose first check succeeds returns without sleeping, so the caller goes on
\* in the same run.
\* the dependencies of the call in progress are all ready: spawn
SpawnAfterDeps(W, f) ==
    LET name == Head(f.todo).name
    IN IF Head(f.todo).fn = "runTask"
       THEN LET W1 == SpawnTask(W, name, f.owner)
            IN Park(W1, [f EXCEPT !.pc = "exit", !.k = 0, !.child = W1.tasks[name].process])
       ELSE Advance(SpawnService(W, name, f.owner), Return(f))

\* startService with a fault: a service that has a process is started again
startServiceAgain(W, f, name) ==
    IF name \notin Services THEN Throw(W, f, Error("unknown", name))
    ELSE IF Len(DependsOn(name)) > 0 THEN waitForReady(W, [f EXCEPT !.pc = "deps", !.k = 1])
    ELSE Advance(SpawnService(W, name, f.owner), Return(f))

startService(W, f, name) ==
    IF name \notin Services THEN Throw(W, f, Error("unknown", name))
    ELSE IF W.services[name].process # NoProc THEN Advance(W, Return(f))
    ELSE IF Len(DependsOn(name)) > 0 THEN waitForReady(W, [f EXCEPT !.pc = "deps", !.k = 1])
    ELSE Advance(SpawnService(W, name, f.owner), Return(f))

runTask(W, f, name) ==
    IF name \notin Tasks THEN Throw(W, f, Error("unknown", name))
    ELSE IF W.tasks[name].status \in {"completed", "failed"} THEN Advance(W, Return(f))
    ELSE IF W.tasks[name].process # NoProc THEN waitForReady(W, [f EXCEPT !.pc = "poll"])
    ELSE IF Len(DependsOn(name)) > 0 THEN waitForReady(W, [f EXCEPT !.pc = "deps", !.k = 1])
    ELSE LET W1 == SpawnTask(W, name, f.owner)
         IN Park(W1, [f EXCEPT !.pc = "exit", !.child = W1.tasks[name].process])

\* stopService with a fault: SIGKILL at once
stopServiceKills(W, f, name) ==
    IF name \notin Services \/ W.services[name].process = NoProc THEN Advance(W, Return(f))
    ELSE LET c == W.services[name].process
         IN Park([W EXCEPT !.procs[c].sig = "kill"],
                 [f EXCEPT !.pc = "stopwait", !.child = c])

stopService(W, f, name) ==
    IF name \notin Services \/ W.services[name].process = NoProc THEN Advance(W, Return(f))
    ELSE LET c == W.services[name].process
         IN Park([W EXCEPT !.procs[c].sig = IF @ = "none" THEN "term" ELSE @],
                 [f EXCEPT !.pc = "stopwait", !.child = c])

\* parseError with a fault: the catch is around the loop over the lines
parseErrorEndsHandler(W, f, op) == write(W, f, op, Fail(Error("syntax", NoTarget)))

\* JSON.parse threw: the catch writes the failure, the loop goes on
parseError(W, f, op) == Advance(write(W, f, op, Fail(Error("syntax", NoTarget))), Return(f))

Advance(W, f) ==
    IF W.daemon = "exited" THEN W
    ELSE IF f.todo = <<>> THEN Finish(W, f)
    ELSE LET op == Head(f.todo)
         IN CASE op.fn = "startService" -> startService(W, f, op.name)
              [] op.fn = "runTask" -> runTask(W, f, op.name)
              [] op.fn = "stopService" -> stopService(W, f, op.name)
              [] op.fn = "startAllServices" -> startAllServices(W, f, op.name)
              [] op.fn = "stopAllServices" -> stopAllServices(W, f)
              [] op.fn = "line" ->
                    CASE op.line.kind = "blank" -> Advance(W, Return(f))
                      [] op.line.kind = "garbage" -> parseError(W, f, op)
                      [] OTHER -> handleCommand(W, f, op)
              [] op.fn = "respond" -> Advance(write(W, f, op, op.body), Return(f))
              [] op.fn = "unlink" ->
                    LET W1 == [W EXCEPT !.server = "closed"]
                    IN IF W.socketFile THEN Park(W1, [f EXCEPT !.pc = "io"])
                       ELSE Advance(W1, Return(f))
              [] op.fn = "writeStatus" -> Park(writeStatus(W), [f EXCEPT !.pc = "io"])

\* the name the chain f waits for in waitForReady: the name of the call itself
\* at pc "poll", its k-th dependency at pc "deps"
Awaited(f) == IF f.pc = "poll" THEN Head(f.todo).name ELSE DependsOn(Head(f.todo).name)[f.k]

\* waitForReady with a fault: a failed task counts as ready
waitForReadyIgnoresFailure(W, f) ==
    LET name == Head(f.todo).name
        dep == Awaited(f)
        seen == ReadyNow(W, dep)
    IN CASE seen = "wait" -> Park(W, f)
         [] f.pc = "poll" -> Advance(W, Return(f))
         [] f.k < Len(DependsOn(name)) -> waitForReady(W, [f EXCEPT !.k = @ + 1])
         [] OTHER -> SpawnAfterDeps(W, f)

\* f is in waitForReady(dep) (not parked), about to test dep's status
waitForReady(W, f) ==
    LET name == Head(f.todo).name
        dep == Awaited(f)
        seen == ReadyNow(W, dep)
    IN CASE seen = "failed" -> Throw(W, f, Error("taskfailed", dep))
         [] seen = "wait" -> Park(W, f)
         [] f.pc = "poll" -> Advance(W, Return(f))
         [] f.k < Len(DependsOn(name)) -> waitForReady(W, [f EXCEPT !.k = @ + 1])
         [] OTHER -> SpawnAfterDeps(W, f)

\* --------------------------------------------------------------- handleExit
\* `${code}` in a template string
CodeText(code) == CASE code = 0 -> "0" [] code = 1 -> "1" [] OTHER -> "null"
\* the messages, as the pieces they are put together from
ExitCodeText(code) == <<"Exit code ", CodeText(code)>>
ExceededText(code) == <<"Exceeded max restarts after exit code ", CodeText(code)>>
SpawnErrorText == <<"spawn ENOENT">>
NoLastError == << >>

RestartPolicy(name) ==
    IF config.restartPolicy[name] = "unset" THEN "on-failure" ELSE config.restartPolicy[name]
MaxRestartsOf(name) ==
    IF config.maxRestarts[name] = Unset THEN DefaultMaxRestarts ELSE config.maxRestarts[name]

\* 2 ** n
RECURSIVE Pow2(_)
Pow2(n) == IF n <= 0 THEN 1 ELSE 2 * Pow2(n - 1)
\* Math.min(a, b)
Min(a, b) == IF a < b THEN a ELSE b

\* restartDelay with a fault: the delay is not capped
restartDelayUncapped(restarts) == BaseDelay * Pow2(restarts - 1)

\* Math.min(1000 * (2 ** (restarts - 1)), 30000); the numbers stay far below
\* 2^53, so the doubles are exact
restartDelay(restarts) == Min(BaseDelay * Pow2(restarts - 1), MaxDelay)

\* handleExit with a fault: the count is compared before it is stored, and the
\* giving-up branch does not store it
handleExitUncounted(W, name, code) ==
    LET W1 == [W EXCEPT !.services[name].process = NoProc, !.services[name].pid = NoProc]
        restarts == W.services[name].restarts + 1
    IN IF W.shuttingDown THEN [W1 EXCEPT !.services[name].status = "stopped"]
       ELSE IF RestartPolicy(name) = "never" THEN [W1 EXCEPT !.services[name].status = "stopped"]
       ELSE IF code = 0 /\ RestartPolicy(name) # "always"
            THEN [W1 EXCEPT !.services[name].status = "stopped"]
       ELSE IF restarts > MaxRestartsOf(name)
            THEN [W1 EXCEPT !.services[name].status = "crashed",
                            !.services[name].lastError = ExceededText(code)]
       ELSE [W1 EXCEPT !.services[name].restarts = restarts,
                       !.services[name].lastError = ExitCodeText(code),
                       !.delay = restartDelay(restarts),
                       !.timers = @ (+) SetToBag({name})]

\* handleExit with a fault: the policy never is not looked at
handleExitIgnoresNever(W, name, code) ==
    LET W1 == [W EXCEPT !.services[name].process = NoProc, !.services[name].pid = NoProc]
        restarts == W.services[name].restarts + 1
    IN IF W.shuttingDown THEN [W1 EXCEPT !.services[name].status = "stopped"]
       ELSE IF code = 0 /\ RestartPolicy(name) # "always"
            THEN [W1 EXCEPT !.services[name].status = "stopped"]
       ELSE IF restarts > MaxRestartsOf(name)
            THEN [W1 EXCEPT !.services[name].restarts = restarts,
                            !.services[name].status = "crashed",
                            !.services[name].lastError = ExceededText(code)]
       ELSE [W1 EXCEPT !.services[name].restarts = restarts,
                       !.services[name].lastError = ExitCodeText(code),
                       !.delay = restartDelay(restarts),
                       !.timers = @ (+) SetToBag({name})]

\* handleExit with a fault: exit code 0 stops the service under every policy
handleExitZeroStops(W, name, code) ==
    LET W1 == [W EXCEPT !.services[name].process = NoProc, !.services[name].pid = NoProc]
        restarts == W.services[name].restarts + 1
    IN IF W.shuttingDown THEN [W1 EXCEPT !.services[name].status = "stopped"]
       ELSE IF RestartPolicy(name) = "never" THEN [W1 EXCEPT !.services[name].status = "stopped"]
       ELSE IF code = 0
            THEN [W1 EXCEPT !.services[name].status = "stopped"]
       ELSE IF restarts > MaxRestartsOf(name)
            THEN [W1 EXCEPT !.services[name].restarts = restarts,
                            !.services[name].status = "crashed",
                            !.services[name].lastError = ExceededText(code)]
       ELSE [W1 EXCEPT !.services[name].restarts = restarts,
                       !.services[name].lastError = ExitCodeText(code),
                       !.delay = restartDelay(restarts),
                       !.timers = @ (+) SetToBag({name})]

\* handleExit with a fault: exit code 0 is counted like a failure under every policy but never
handleExitZeroCounts(W, name, code) ==
    LET W1 == [W EXCEPT !.services[name].process = NoProc, !.services[name].pid = NoProc]
        restarts == W.services[name].restarts + 1
    IN IF W.shuttingDown THEN [W1 EXCEPT !.services[name].status = "stopped"]
       ELSE IF RestartPolicy(name) = "never" THEN [W1 EXCEPT !.services[name].status = "stopped"]
       ELSE IF restarts > MaxRestartsOf(name)
            THEN [W1 EXCEPT !.services[name].restarts = restarts,
                            !.services[name].status = "crashed",
                            !.services[name].lastError = ExceededText(code)]
       ELSE [W1 EXCEPT !.services[name].restarts = restarts,
                       !.services[name].lastError = ExitCodeText(code),
                       !.delay = restartDelay(restarts),
                       !.timers = @ (+) SetToBag({name})]

\* handleExit with a fault: the service is never given up
handleExitNoLimit(W, name, code) ==
    LET W1 == [W EXCEPT !.services[name].process = NoProc, !.services[name].pid = NoProc]
        restarts == W.services[name].restarts + 1
    IN IF W.shuttingDown THEN [W1 EXCEPT !.services[name].status = "stopped"]
       ELSE IF RestartPolicy(name) = "never" THEN [W1 EXCEPT !.services[name].status = "stopped"]
       ELSE IF code = 0 /\ RestartPolicy(name) # "always"
            THEN [W1 EXCEPT !.services[name].status = "stopped"]
       ELSE [W1 EXCEPT !.services[name].restarts = restarts,
                       !.services[name].lastError = ExitCodeText(code),
                       !.delay = restartDelay(restarts),
                       !.timers = @ (+) SetToBag({name})]

\* handleExit with a fault: shuttingDown is not looked at
handleExitIgnoresShutdown(W, name, code) ==
    LET W1 == [W EXCEPT !.services[name].process = NoProc, !.services[name].pid = NoProc]
        restarts == W.services[name].restarts + 1
    IN IF RestartPolicy(name) = "never" THEN [W1 EXCEPT !.services[name].status = "stopped"]
       ELSE IF code = 0 /\ RestartPolicy(name) # "always"
            THEN [W1 EXCEPT !.services[name].status = "stopped"]
       ELSE IF restarts > MaxRestartsOf(name)
            THEN [W1 EXCEPT !.services[name].restarts = restarts,
                            !.services[name].status = "crashed",
                            !.services[name].lastError = ExceededText(code)]
       ELSE [W1 EXCEPT !.services[name].restarts = restarts,
                       !.services[name].lastError = ExitCodeText(code),
                       !.delay = restartDelay(restarts),
                       !.timers = @ (+) SetToBag({name})]

handleExit(W, name, code) ==
    LET W1 == [W EXCEPT !.services[name].process = NoProc, !.services[name].pid = NoProc]
        restarts == W.services[name].restarts + 1
    IN IF W.shuttingDown THEN [W1 EXCEPT !.services[name].status = "stopped"]
       ELSE IF RestartPolicy(name) = "never" THEN [W1 EXCEPT !.services[name].status = "stopped"]
       ELSE IF code = 0 /\ RestartPolicy(name) # "always"
            THEN [W1 EXCEPT !.services[name].status = "stopped"]
       ELSE IF restarts > MaxRestartsOf(name)
            THEN [W1 EXCEPT !.services[name].restarts = restarts,
                            !.services[name].status = "crashed",
                            !.services[name].lastError = ExceededText(code)]
       ELSE [W1 EXCEPT !.services[name].restarts = restarts,
                       !.services[name].lastError = ExitCodeText(code),
                       !.delay = restartDelay(restarts),
                       !.timers = @ (+) SetToBag({name})]

\* proc.on('error') of startService
serviceSpawnError(W, name) ==
    handleExit([W EXCEPT !.services[name].lastError = SpawnErrorText], name, 1)

\* proc.on('exit') of runTask, up to the resolve / reject
taskExit(W, name, code) ==
    LET W1 == [W EXCEPT !.tasks[name].process = NoProc, !.tasks[name].pid = NoProc,
                        !.tasks[name].exitCode = IF code # NullCode THEN code ELSE @]
    IN IF code = 0
       THEN [W1 EXCEPT !.tasks[name].status = "completed", !.everReady = @ \cup {name}]
       ELSE [W1 EXCEPT !.tasks[name].status = "failed",
                       !.tasks[name].lastError = ExitCodeText(code)]

\* proc.on('error') of runTask, up to the reject
taskSpawnError(W, name) ==
    [W EXCEPT !.tasks[name].process = NoProc, !.tasks[name].pid = NoProc,
              !.tasks[name].status = "failed", !.tasks[name].lastError = SpawnErrorText]

\* the chains suspended on child c at pc
Waiters(W, c, pc) == {f \in BagToSet(W.threads) : f.pc = pc /\ f.child = c}

\* resume every chain of fs (each as often as it is parked): how is "return" or "throw"
RECURSIVE ResumeAll(_, _, _, _)
ResumeAll(W, fs, how, err) ==
    IF fs = {} THEN W
    ELSE LET f == CHOOSE g \in fs : TRUE
             W1 == Unpark(W, f)
             W2 == IF how = "return" THEN Advance(W1, Return(f)) ELSE Throw(W1, f, err)
         IN IF CopiesIn(f, W1.threads) > 0 /\ W2.daemon # "exited"
            THEN ResumeAll(W2, fs, how, err)
            ELSE ResumeAll(W2, fs \ {f}, how, err)

\* the exit event of child c: every listener, then every chain it resumes
childExit(W, c, code) ==
    LET name == W.procs[c].name
        W0 == [W EXCEPT !.procs = [i \in DOMAIN @ \ {c} |-> @[i]]]
    IN IF name \in Tasks
       THEN IF code = 0
            THEN ResumeAll(taskExit(W0, name, code), Waiters(W0, c, "exit"), "return", NoError)
            ELSE ResumeAll(taskExit(W0, name, code), Waiters(W0, c, "exit"), "throw",
                           Error("taskfailed", name))
       ELSE LET W1 == handleExit(W0, name, code)
                ws == Waiters(W0, c, "stopwait")
                W2 == IF ws = {} THEN W1 ELSE [W1 EXCEPT !.services[name].status = "stopped"]
            IN ResumeAll(W2, ws, "return", NoError)

\* the error event of child c, whose spawn failed
childError(W, c) ==
    LET name == W.procs[c].name
        W0 == [W EXCEPT !.procs = [i \in DOMAIN @ \ {c} |-> @[i]]]
    IN IF name \in Tasks
       THEN ResumeAll(taskSpawnError(W0, name), Waiters(W0, c, "exit"), "throw",
                      Error("taskfailed", name))
       ELSE serviceSpawnError(W0, name)

\* stopService's 5 s timer: SIGKILL to whatever managed.process is now, then resolve
stopTimeout(W, f) ==
    LET name == Head(f.todo).name
        cur == W.services[name].process
        W1 == IF cur # NoProc THEN [W EXCEPT !.procs[cur].sig = "kill"] ELSE W
    IN Advance([W1 EXCEPT !.services[name].status = "stopped"], Return(f))

\* ---------------------------------------------------------- runHealthChecks
HealthCheckOf(name) == config.healthCheck[name]
Probed == {s \in Services : HealthCheckOf(s) \notin {"none", "unset"}}

\* runHealthChecks with a fault: the result of the probe is not looked at
runHealthChecksIgnoresProbe(W, probe) ==
    LET polled == {s \in Services : W.services[s].process # NoProc}
    IN [W EXCEPT !.services = [s \in Services |->
                    IF s \in polled THEN [@[s] EXCEPT !.status = "healthy"] ELSE @[s]],
                 !.everReady = @ \cup polled,
                 !.lastProbe = [s \in Probed |-> IF s \in polled THEN probe[s] ELSE @[s]]]

\* managed.state.status = healthy ? 'healthy' : 'unhealthy'
setHealth(W, s, healthy) ==
    [W EXCEPT !.services[s].status = IF healthy THEN "healthy" ELSE "unhealthy",
              !.everReady = IF healthy THEN @ \cup {s} ELSE @,
              !.lastProbe[s] = healthy]

\* the loop of runHealthChecks from the i-th service on: a port check is
\* synchronous (probe is what lsof finds), the fetch of an http check is awaited
RECURSIVE healthLoop(_, _, _)
healthLoop(W, probe, i) ==
    IF i > Len(ServiceNames) THEN W
    ELSE LET s == ServiceNames[i]
         IN IF W.services[s].process = NoProc THEN healthLoop(W, probe, i + 1)
            ELSE IF s \notin Probed
                 THEN healthLoop([W EXCEPT !.services[s].status = "healthy",
                                           !.everReady = @ \cup {s}], probe, i + 1)
            ELSE IF HealthCheckOf(s) = "http"
                 THEN Park(W, [Frame(HealthOwner, <<Op("checkHealth", s)>>)
                                  EXCEPT !.pc = "fetch", !.k = i])
            ELSE healthLoop(setHealth(W, s, probe[s]), probe, i + 1)

runHealthChecks(W, probe) == healthLoop(W, probe, 1)

\* the fetch of the http check f awaits has settled: res.ok, or false
fetchDone(W, f, healthy, probe) ==
    healthLoop(setHealth(W, Head(f.todo).name, healthy), probe, f.k + 1)

\* -------------------------------------------------------- startAllServices
Filter(seq, S) == SelectSeq(seq, LAMBDA n : n \in S)
Reverse(seq) == [i \in 1..Len(seq) |-> seq[Len(seq) + 1 - i]]
StartOp(name) == IF name \in Tasks THEN Op("runTask", name) ELSE Op("startService", name)
StartOps(seq) == [i \in 1..Len(seq) |-> StartOp(seq[i])]
StopOps(seq) == [i \in 1..Len(seq) |-> Op("stopService", seq[i])]

\* ResolvedOrder with a fault: the target does not narrow the order
ResolvedOrderUnfiltered(onlyTarget) == topoSort.result

\* the order startAllServices(onlyTarget) walks
ResolvedOrder(onlyTarget) ==
    IF onlyTarget = NoTarget THEN topoSort.result
    ELSE Filter(topoSort.result, getTransitiveDeps(onlyTarget) \cup {onlyTarget})

\* startAllServices with a fault: the error of topoSort is swallowed and the
\* names sorted so far are started
startAllServicesAnyway(W, f, onlyTarget) ==
    Advance(W, [f EXCEPT !.todo = StartOps(ResolvedOrder(onlyTarget)) \o Tail(@)])

\* f is at its call of startAllServices(onlyTarget)
startAllServices(W, f, onlyTarget) ==
    IF topoSort.err # NoErr
    THEN Throw(W, f, Error("circular", topoSort.err))
    ELSE Advance(W, [f EXCEPT !.todo = StartOps(ResolvedOrder(onlyTarget)) \o Tail(@)])

\* f is at its call of stopAllServices()
stopAllServices(W, f) ==
    IF topoSort.err # NoErr
    THEN Throw(W, f, Error("circular", topoSort.err))
    ELSE Advance(W, [f EXCEPT !.todo = StopOps(Reverse(topoSort.result)) \o Tail(@)])

\* ------------------------------------------------------------ handleCommand
\* ------------------------------------------------------------------- logs
DefaultLogLines == 50
NewLine == "\n"

\* content.split('\n')
RECURSIVE split(_)
split(text) ==
    IF \A i \in 1..Len(text) : text[i] # NewLine THEN <<text>>
    ELSE LET i == CHOOSE j \in 1..Len(text) :
                    text[j] = NewLine /\ \A k \in 1..(j - 1) : text[k] # NewLine
         IN <<SubSeq(text, 1, i - 1)>> \o split(SubSeq(text, i + 1, Len(text)))

\* lines.slice(start)
slice(seq, start) ==
    LET from == IF start < 0 THEN (IF Len(seq) + start < 0 THEN 0 ELSE Len(seq) + start)
                ELSE (IF start > Len(seq) THEN Len(seq) ELSE start)
    IN SubSeq(seq, from + 1, Len(seq))

\* pieces.join('\n')
RECURSIVE join(_)
join(pieces) ==
    IF pieces = << >> THEN << >>
    ELSE IF Len(pieces) = 1 THEN pieces[1]
    ELSE pieces[1] \o <<NewLine>> \o join(Tail(pieces))

\* the logs case of handleCommand
logs(files, service, lines) ==
    IF service \notin DOMAIN files THEN Fail(Error("nologs", service))
    ELSE OkData(join(slice(split(files[service]),
                           0 - (IF lines = Unset THEN DefaultLogLines ELSE lines))))

\* logLine: a line of the child's output is appended with its newline
logLine(W, name, line) ==
    IF name \in DOMAIN W.logFiles
    THEN [W EXCEPT !.logFiles[name] = @ \o line \o <<NewLine>>]
    ELSE W

\* a command line: text that is blank, that JSON.parse rejects, or that parses to
\* a value with a cmd tag, a service and a lines field
Line(kind, cmd, name, lines) == [kind |-> kind, cmd |-> cmd, name |-> name, lines |-> lines]
Command(cmd, name) == Line("json", cmd, name, Unset)
LineOp(line, id) == [fn |-> "line", name |-> line.name, id |-> id, line |-> line]

\* f, the data handler of a socket, is at its call of handleCommand for the line
\* op: the calls the command makes and the write of the response come before
\* the lines that follow in the chunk
handleCommand(W, f, op) ==
    LET cmd == op.line.cmd
        name == op.name
        calls(ops) == Advance(W, [f EXCEPT !.todo = ops \o <<Respond(op, Ok)>> \o Tail(@)])
        return(body) == Advance(W, [f EXCEPT !.todo = <<Respond(op, body)>> \o Tail(@)])
    IN CASE cmd = "status" -> return(OkData(getStatusData(W.services, W.tasks)))
         [] cmd = "logs" -> return(logs(W.logFiles, name, op.line.lines))
         [] cmd = "start" /\ name # NoTarget -> calls(<<StartOp(name)>>)
         [] cmd = "start" -> calls(<<Op("startAllServices", NoTarget)>>)
         [] cmd = "stop" /\ name # NoTarget -> calls(<<Op("stopService", name)>>)
         [] cmd = "stop" -> calls(<<Op("stopAllServices", NoTarget)>>)
         [] cmd = "restart" /\ name # NoTarget ->
               calls(<<Op("stopService", name), Op("startService", name)>>)
         [] cmd = "restart" ->
               calls(<<Op("stopAllServices", NoTarget), Op("startAllServices", NoTarget)>>)
         [] cmd = "down" ->
               Advance([W EXCEPT !.pendingDown = @ + 1],
                       [f EXCEPT !.todo = <<Respond(op, Ok)>> \o Tail(@)])
         [] OTHER -> return(Undefined)

\* the data handler of a socket, for a chunk of whole lines, c lines having come
\* before
LineOps(chunk, c) == [i \in 1..Len(chunk) |-> LineOp(chunk[i], c + i)]
socketData(W, owner, c, chunk) == Advance(W, Frame(owner, LineOps(chunk, c)))

\* ----------------------------------------------------------------- shutdown
\* the unlink or writeFile a chain awaits has completed
ioDone(W, f) ==
    IF Head(f.todo).fn = "unlink"
    THEN Advance([W EXCEPT !.socketFile = FALSE], Return(f))
    ELSE Advance(W, Return(f))

\* shutdown with a fault: shuttingDown is not looked at
shutdownAgain(W) ==
    Advance([W EXCEPT !.shuttingDown = TRUE, !.intervals = FALSE],
            Frame(ShutdownOwner, <<Op("stopAllServices", NoTarget), Op("unlink", NoTarget),
                                   Op("writeStatus", NoTarget)>>))

shutdown(W) ==
    IF W.shuttingDown THEN W
    ELSE Advance([W EXCEPT !.shuttingDown = TRUE, !.intervals = FALSE],
                 Frame(ShutdownOwner, <<Op("stopAllServices", NoTarget), Op("unlink", NoTarget),
                                        Op("writeStatus", NoTarget)>>))

\* timer callback of handleExit
restartTimer(W, name) ==
    LET W1 == [W EXCEPT !.timers = @ (-) SetToBag({name})]
    IN IF W1.shuttingDown THEN W1
       ELSE Advance(W1, Frame(TimerOwner, <<Op("startService", name)>>))

\* -------------------------------------------------------------------- start
\* the services with a port health check
PortChecked == {s \in Services : HealthCheckOf(s) = "port"}

\* PortConflicts with a fault: no port is looked at
PortConflictsNone(e) == {}

\* the conflicts checkPortConflicts collects
PortConflicts(e) == {s \in PortChecked : s \in e.portsInUse}

\* start() from its call of checkPortConflicts to its await of the listen
\* (the listen is taken to succeed)
checkPortConflicts(W, e) ==
    IF PortConflicts(e) # {}
    THEN Throw(W, Frame(BootOwner, << >>), Error("portconflict", NoTarget))
    ELSE [W EXCEPT !.boot = "listen"]

\* start() up to its first await: of checkExistingDaemon if the socket file
\* exists
start(W, e) ==
    IF W.socketFile THEN [W EXCEPT !.boot = "probe"] ELSE checkPortConflicts(W, e)

\* checkExistingDaemon has resolved: true if a daemon accepted the connection
checkExistingDaemon(W, e) ==
    IF e.daemonRunning
    THEN Throw(W, Frame(BootOwner, << >>), Error("alreadyrunning", NoTarget))
    ELSE [W EXCEPT !.boot = "unlink"]

\* the unlink of the stale socket file has completed
staleUnlinked(W, e) == checkPortConflicts([W EXCEPT !.socketFile = FALSE], e)

\* the server listens: start() sets its intervals and awaits its writeStatus
startSocketServer(W) ==
    writeStatus([W EXCEPT !.server = "listening", !.socketFile = TRUE, !.intervals = TRUE,
                          !.boot = "pending"])

\* ------------------------------------------------------------------- Init
ExitCodes == {0, 1, NullCode}
Commands == {"start", "stop", "restart", "down"}

ExitEvent(kind, name, code) == [kind |-> kind, name |-> name, code |-> code]

\* the state the constructor leaves
Constructed ==
    /\ services = [s \in Services |->
            [status |-> "pending", process |-> NoProc, pid |-> NoProc, restarts |-> 0,
             lastError |-> NoLastError]]
    /\ tasks = [t \in Tasks |->
            [status |-> "pending", process |-> NoProc, pid |-> NoProc, exitCode |-> NullCode,
             lastError |-> NoLastError]]
    /\ procs = << >>
    /\ threads = EmptyBag
    /\ timers = EmptyBag
    /\ pendingDown = 0
    /\ shuttingDown = FALSE
    /\ daemon = "up"
    /\ bootError = NoError
    /\ nspawn = [n \in Declared |-> 0]
    /\ bootSpawns = << >>
    /\ everReady = {}
    /\ spawnedEarly = {}
    /\ lastProbe = [s \in Probed |-> FALSE]
    /\ exitCode = Unset
    /\ received = << >>
    /\ sent = << >>
    /\ paths = NoCall
    /\ delay = Unset
    /\ cmds = 0
    /\ lastExit = ExitEvent("none", NoTarget, NullCode)

\* what start() finds
Env(running, ports) == [daemonRunning |-> running, portsInUse |-> ports]

\* start() has found no conflict, bound the socket, set its intervals and awaits
\* its writeStatus
InitState ==
    /\ Constructed
    /\ boot = "pending"
    /\ env = Env(FALSE, {})
    /\ server = "listening"
    /\ intervals = TRUE
    /\ socketFile = TRUE
    /\ statusFile = getStatusData(services, tasks)

\* a configuration whose services all have the same policy, limit and health check
Cfg(tsks, svcs, deps, policy, maxr, hc, ok, target) ==
    [tasks |-> tsks, services |-> svcs, dependsOn |-> deps,
     restartPolicy |-> [s \in Range(svcs) |-> policy],
     maxRestarts |-> [s \in Range(svcs) |-> maxr],
     healthCheck |-> [s \in Range(svcs) |-> hc],
     cwdOk |-> [n \in Range(tsks) \cup Range(svcs) |-> ok],
     onlyService |-> target]

Policies == {"unset", "on-failure", "always", "never"}

\* one service, under every policy and limit
RestartConfigs ==
    {Cfg(<< >>, <<"web">>, [web |-> << >>], p, m, hc, ok, NoTarget) :
        p \in Policies, m \in {0, 1, Unset}, hc \in {"none", "port"}, ok \in BOOLEAN}

\* dependency chains: a service on a service, a task on a service, a service on a task
ChainConfigs ==
    {Cfg(<< >>, <<"web", "db">>, [web |-> <<"db">>, db |-> << >>],
         "unset", 1, "none", TRUE, NoTarget),
     Cfg(<<"migrate">>, <<"db">>, [migrate |-> <<"db">>, db |-> << >>],
         "never", Unset, "port", TRUE, NoTarget),
     Cfg(<<"migrate">>, <<"web">>, [migrate |-> << >>, web |-> <<"migrate">>],
         "never", Unset, "none", TRUE, NoTarget)}

Configs == RestartConfigs \cup ChainConfigs

Init == config \in Configs /\ InitState /\ logFiles = NoFiles

\* every dependency graph of at most MaxEdges edges over a task and two services,
\* a name nobody declares among the targets, started whole or for one target
GraphNames == {"migrate", "web", "db", Ghost}
NoRepeat(seq) == \A i, j \in 1..Len(seq) : i # j => seq[i] # seq[j]
DepLists == {l \in UNION {[1..n -> GraphNames] : n \in 0..MaxEdges} : NoRepeat(l)}
Graphs ==
    {g \in [{"migrate", "web", "db"} -> DepLists] :
        Len(g["migrate"]) + Len(g["web"]) + Len(g["db"]) <= MaxEdges}
GraphConfigs ==
    {Cfg(<<"migrate">>, <<"web", "db">>, g, "never", Unset, "none", TRUE, t) :
        g \in Graphs, t \in {NoTarget, "migrate", "web", "db"}}

InitGraphs == config \in GraphConfigs /\ InitState /\ logFiles = NoFiles

\* ---------------------------------------------------------------- actions
Up == daemon = "up"
\* a spawn has failed and its error event, emitted on the next tick, is still to
\* come: it comes before any other event
ErrorPending == \E c \in DOMAIN procs : ~procs[c].ok
Idle == Up /\ ~ErrorPending
Capped(W) == Spawned(W) <= MaxSpawns

\* start() reaches its call of startAllServices(this.onlyService)
Boot ==
    /\ Idle /\ boot = "pending"
    /\ LET W == Advance([World EXCEPT !.boot = "running"],
                         Frame(BootOwner, <<Op("startAllServices", config.onlyService)>>))
       IN Capped(W) /\ SetWorld(W)
    /\ UNCHANGED <<cmds, lastExit, received>>

\* a client connects, sends one command line and disconnects; c numbers the
\* command lines
ClientCommand(cmd, name) ==
    /\ Idle /\ server = "listening" /\ cmds < MaxCmds
    /\ LET W == socketData(World, ClientOwner(cmds + 1), cmds, <<Command(cmd, name)>>)
       IN Capped(W) /\ SetWorld(W)
    /\ cmds' = cmds + 1
    /\ UNCHANGED <<lastExit, received>>

\* a chunk of lines arrives on the connection observed
SocketData(chunk) ==
    /\ Idle /\ server # "none" /\ Len(received) + Len(chunk) <= MaxLines
    /\ LET W == socketData(World, ConnOwner, Len(received), chunk)
       IN Capped(W) /\ SetWorld(W)
    /\ received' = received \o chunk
    /\ UNCHANGED <<cmds, lastExit>>

\* a chain wakes from the sleep(500) of waitForReady and sees the status it
\* waits for (a wake that sees no change leaves the state as it is)
WaitForReadyPoll(f) ==
    /\ Idle /\ f.pc \in {"deps", "poll"}
    /\ LET W == waitForReady(Unpark(World, f), f)
       IN W.threads # threads /\ Capped(W) /\ SetWorld(W)
    /\ UNCHANGED <<cmds, lastExit, received>>

\* a chain wakes from the sleep(500) of waitForReady after timeoutMs
WaitForReadyTimeout(f) ==
    /\ Idle /\ f.pc \in {"deps", "poll"}
    /\ SetWorld(Throw(Unpark(World, f), f, Error("timeout", Awaited(f))))
    /\ UNCHANGED <<cmds, lastExit, received>>

StopTimeout(f) ==
    /\ Idle /\ f.pc = "stopwait"
    /\ LET W == stopTimeout(Unpark(World, f), f)
       IN Capped(W) /\ SetWorld(W)
    /\ UNCHANGED <<cmds, lastExit, received>>

ChildExit(c, code) ==
    /\ Idle /\ procs[c].ok
    /\ LET W == childExit(World, c, code)
       IN Capped(W) /\ SetWorld(W)
    /\ lastExit' = ExitEvent("exit", procs[c].name, code)
    /\ UNCHANGED <<cmds, received>>

ChildError(c) ==
    /\ Up /\ ~procs[c].ok
    /\ LET W == childError(World, c)
       IN Capped(W) /\ SetWorld(W)
    /\ lastExit' = ExitEvent("error", procs[c].name, 1)
    /\ UNCHANGED <<cmds, received>>

RestartTimer(name) ==
    /\ Idle /\ BagIn(name, timers)
    /\ LET W == restartTimer(World, name)
       IN Capped(W) /\ SetWorld(W)
    /\ UNCHANGED <<cmds, lastExit, received>>

\* the health check interval elapses (no earlier run of runHealthChecks still
\* awaits a fetch: a fetch is aborted after 2 s, the interval is 5 s)
RunHealthChecks(probe) ==
    /\ Idle /\ intervals
    /\ \A f \in BagToSet(threads) : f.owner # HealthOwner
    /\ SetWorld(runHealthChecks(World, probe))
    /\ UNCHANGED <<cmds, lastExit, received>>

FetchDone(f, healthy, probe) ==
    /\ Idle /\ f.pc = "fetch"
    /\ SetWorld(fetchDone(Unpark(World, f), f, healthy, probe))
    /\ UNCHANGED <<cmds, lastExit, received>>

\* an unlink or a writeFile completes
IoDone(f) ==
    /\ Idle /\ f.pc = "io"
    /\ SetWorld(ioDone(Unpark(World, f), f))
    /\ UNCHANGED <<cmds, lastExit, received>>

\* the setImmediate callback of a down command
DownImmediate ==
    /\ Idle /\ pendingDown > 0
    /\ SetWorld(shutdown([World EXCEPT !.pendingDown = @ - 1]))
    /\ UNCHANGED <<cmds, lastExit, received>>

\* SIGTERM or SIGINT; start() sets the handlers in the run that goes on to
\* startAllServices
Signal ==
    /\ Idle /\ boot # "pending" /\ cmds < MaxCmds
    /\ SetWorld(shutdown(World))
    /\ cmds' = cmds + 1
    /\ UNCHANGED <<lastExit, received>>

Next ==
    \/ Boot
    \/ \E cmd \in Commands, name \in Declared \cup {NoTarget} : ClientCommand(cmd, name)
    \/ \E f \in BagToSet(threads) : WaitForReadyPoll(f)
    \/ \E f \in BagToSet(threads) : WaitForReadyTimeout(f)
    \/ \E f \in BagToSet(threads) : StopTimeout(f)
    \/ \E c \in DOMAIN procs, code \in ExitCodes : ChildExit(c, code)
    \/ \E c \in DOMAIN procs : ChildError(c)
    \/ \E name \in Services : RestartTimer(name)
    \/ \E probe \in [Probed -> BOOLEAN] : RunHealthChecks(probe)
    \/ \E f \in BagToSet(threads) : IoDone(f)
    \/ DownImmediate
    \/ Signal

Spec == Init /\ [][Next]_vars

\* startup alone: no client connects, no signal arrives
NextStartup ==
    \/ Boot
    \/ \E f \in BagToSet(threads) : WaitForReadyPoll(f)
    \/ \E f \in BagToSet(threads) : WaitForReadyTimeout(f)
    \/ \E c \in DOMAIN procs, code \in ExitCodes : ChildExit(c, code)
    \/ \E probe \in [Probed -> BOOLEAN] : RunHealthChecks(probe)

SpecStartup == InitGraphs /\ [][NextStartup]_vars

\* a service left to the restart engine: no client connects, no signal arrives,
\* and every exit of its process is one the policy restarts
CrashLoopConfigs ==
    {Cfg(<< >>, <<"web">>, [web |-> << >>], p, m, hc, ok, NoTarget) :
        p \in Policies \ {"never"}, m \in 0..(MaxSpawns - 1), hc \in {"none", "port"},
        ok \in BOOLEAN}

InitCrashLoop == config \in CrashLoopConfigs /\ InitState /\ logFiles = NoFiles

RestartEligible(name, code) == RestartPolicy(name) = "always" \/ code # 0

EligibleExit ==
    \E c \in DOMAIN procs, code \in ExitCodes :
        RestartEligible(procs[c].name, code) /\ ChildExit(c, code)
SpawnFails == \E c \in DOMAIN procs : ChildError(c)
TimerElapses == \E name \in Services : RestartTimer(name)

NextCrashLoop ==
    \/ Boot
    \/ EligibleExit
    \/ SpawnFails
    \/ TimerElapses
    \/ \E probe \in [Probed -> BOOLEAN] : RunHealthChecks(probe)

\* start() goes on to start the services, the process exits (the case looked
\* at), a failed spawn emits its error event, a timer set elapses
SpecCrashLoop ==
    /\ InitCrashLoop /\ [][NextCrashLoop]_vars
    /\ WF_vars(Boot) /\ WF_vars(EligibleExit) /\ WF_vars(SpawnFails) /\ WF_vars(TimerElapses)

\* the status writer's interval elapses
WriteStatus ==
    /\ Idle /\ intervals
    /\ SetWorld(writeStatus(World))
    /\ UNCHANGED <<cmds, lastExit, received>>

\* an exception nobody catches is thrown, or a promise nobody handles is
\* rejected, once start() has set the handlers
Fatal ==
    /\ Idle /\ boot # "pending"
    /\ SetWorld(fatal(World))
    /\ UNCHANGED <<cmds, lastExit, received>>

\* the command protocol: one connection that stays open, on it chunks of lines
\* that are blank, not JSON, of an unknown tag, status and start commands
Lines ==
    {Command("start", name) : name \in Declared \cup {NoTarget}}
        \cup {Command(cmd, NoTarget) : cmd \in {"status", "ping"}}
        \cup {Line("garbage", "-", NoTarget, Unset), Line("blank", "-", NoTarget, Unset)}
Chunks == UNION {[1..n -> Lines] : n \in 1..MaxLines}

\* a service that depends on a task
ProtocolConfigs ==
    {Cfg(<<"migrate">>, <<"web">>, [migrate |-> << >>, web |-> <<"migrate">>],
         "never", Unset, "none", TRUE, NoTarget)}

InitProtocol == config \in ProtocolConfigs /\ InitState /\ logFiles = NoFiles

NextProtocol ==
    \/ Boot
    \/ \E chunk \in Chunks : SocketData(chunk)
    \/ \E f \in BagToSet(threads) : WaitForReadyPoll(f)
    \/ \E f \in BagToSet(threads) : WaitForReadyTimeout(f)
    \/ \E c \in DOMAIN procs, code \in ExitCodes : ChildExit(c, code)
    \/ \E probe \in [Probed -> BOOLEAN] : RunHealthChecks(probe)

SpecProtocol == InitProtocol /\ [][NextProtocol]_vars

\* the daemon left to itself, with internal faults: no client connects, no
\* signal arrives
NextFault ==
    \/ Boot
    \/ \E f \in BagToSet(threads) : WaitForReadyPoll(f)
    \/ \E f \in BagToSet(threads) : WaitForReadyTimeout(f)
    \/ \E c \in DOMAIN procs, code \in ExitCodes : ChildExit(c, code)
    \/ \E c \in DOMAIN procs : ChildError(c)
    \/ \E name \in Services : RestartTimer(name)
    \/ \E probe \in [Probed -> BOOLEAN] : RunHealthChecks(probe)
    \/ WriteStatus
    \/ Fatal

SpecFault == Init /\ [][NextFault]_vars

\* a line of output of child c arrives on its stdout or stderr
ChildOutput(c, line) ==
    /\ Idle /\ procs[c].ok
    /\ procs[c].name \in DOMAIN logFiles
    /\ Len(split(logFiles[procs[c].name])) <= MaxLogLines
    /\ SetWorld(logLine(World, procs[c].name, line))
    /\ UNCHANGED <<cmds, lastExit, received>>

\* the logs command: one service that writes lines to its log, the log of an
\* earlier run still there or not, logs commands for it and for an unknown name
LogBodies == {<<"a">>, <<"b">>}
RECURSIVE Written(_)
Written(ls) == IF ls = << >> THEN << >> ELSE Head(ls) \o <<NewLine>> \o Written(Tail(ls))
LogTexts == {Written(ls) : ls \in UNION {[1..n -> LogBodies] : n \in 0..MaxLogLines}}
LogCounts == {Unset} \cup 0..MaxLogLines
LogConfigs == {Cfg(<< >>, <<"web">>, [web |-> << >>], "never", Unset, "none", TRUE, NoTarget)}

InitLogs ==
    /\ config \in LogConfigs /\ InitState
    /\ logFiles \in {NoFiles} \cup {("web" :> t) : t \in LogTexts}

NextLogs ==
    \/ Boot
    \/ \E c \in DOMAIN procs, line \in LogBodies : ChildOutput(c, line)
    \/ \E name \in Declared \cup {Ghost}, n \in LogCounts :
            SocketData(<<Line("json", "logs", name, n)>>)

SpecLogs == InitLogs /\ [][NextLogs]_vars

\* the path functions, called for a project directory and the name of an entity
\* of the config: the directory is absolute and normalized, as process.cwd()
\* gives it; a name is any text, the config being taken as it is
Dirs == {"p", "q"}
Cwds == {render(d) : d \in UNION {[1..n -> {<<x>> : x \in Dirs}] : n \in 1..MaxDepth}}
EntityNames == UNION {[1..n -> {"w", Sep, DotDot}] : n \in 1..MaxNameLen}

GetPaths(cwd, service) ==
    /\ paths' = [cwd |-> cwd, service |-> service, supDir |-> getSupDir(cwd),
                 socketPath |-> getSocketPath(cwd), statusPath |-> getStatusPath(cwd),
                 logsDir |-> getLogsDir(cwd), logPath |-> getLogPath(service, cwd)]
    /\ UNCHANGED <<config, services, tasks, procs, threads, timers, pendingDown, shuttingDown,
                   daemon, boot, bootError, nspawn, bootSpawns, everReady, spawnedEarly,
                   lastProbe, logFiles, received, sent, socketFile, statusFile, exitCode, cmds,
                   lastExit, server, intervals, env, delay>>

InitPaths == config \in LogConfigs /\ InitState /\ logFiles = NoFiles
NextPaths == \E cwd \in Cwds, service \in EntityNames : GetPaths(cwd, service)
SpecPaths == InitPaths /\ [][NextPaths]_vars

\* explicit stops: the client of the connection observed sends stop commands
\* for services that are running and nothing else, no signal arrives
StopRunning(name) ==
    /\ services[name].process # NoProc /\ services[name].pid # NoProc
    /\ SocketData(<<Command("stop", name)>>)

NextStop ==
    \/ Boot
    \/ \E name \in Services : StopRunning(name)
    \/ \E f \in BagToSet(threads) : WaitForReadyPoll(f)
    \/ \E f \in BagToSet(threads) : WaitForReadyTimeout(f)
    \/ \E f \in BagToSet(threads) : StopTimeout(f)
    \/ \E c \in DOMAIN procs, code \in ExitCodes : ChildExit(c, code)
    \/ \E c \in DOMAIN procs : ChildError(c)
    \/ \E name \in Services : RestartTimer(name)
    \/ \E probe \in [Probed -> BOOLEAN] : RunHealthChecks(probe)

SpecStop == Init /\ [][NextStop]_vars

\* shutdown triggered more than once: down commands on the connection
\* observed, each with its setImmediate callback, and a signal
NextDown ==
    \/ Boot
    \/ SocketData(<<Command("down", NoTarget)>>)
    \/ DownImmediate
    \/ Signal
    \/ \E f \in BagToSet(threads) : WaitForReadyPoll(f)
    \/ \E f \in BagToSet(threads) : StopTimeout(f)
    \/ \E c \in DOMAIN procs, code \in ExitCodes : ChildExit(c, code)
    \/ \E c \in DOMAIN procs : ChildError(c)
    \/ \E probe \in [Probed -> BOOLEAN] : RunHealthChecks(probe)
    \/ \E f \in BagToSet(threads) : IoDone(f)

SpecDown == Init /\ [][NextDown]_vars

\* start() from its first line: the socket file of an earlier daemon is there or
\* not, that daemon still runs or not, the ports of the health checks are
\* bound or not
Start ==
    /\ Up /\ boot = "new"
    /\ SetWorld(start(World, env))
    /\ UNCHANGED <<cmds, lastExit, received>>

CheckExistingDaemon ==
    /\ Up /\ boot = "probe"
    /\ SetWorld(checkExistingDaemon(World, env))
    /\ UNCHANGED <<cmds, lastExit, received>>

StaleUnlinked ==
    /\ Up /\ boot = "unlink"
    /\ SetWorld(staleUnlinked(World, env))
    /\ UNCHANGED <<cmds, lastExit, received>>

StartSocketServer ==
    /\ Up /\ boot = "listen"
    /\ SetWorld(startSocketServer(World))
    /\ UNCHANGED <<cmds, lastExit, received>>

NoStatus == [services |-> << >>, tasks |-> << >>]

InitStart ==
    /\ config \in ChainConfigs /\ Constructed /\ logFiles = NoFiles
    /\ boot = "new"
    /\ server = "none"
    /\ intervals = FALSE
    /\ statusFile = NoStatus
    /\ socketFile \in BOOLEAN
    /\ env \in {Env(running, ports) : running \in BOOLEAN, ports \in SUBSET PortChecked}
    /\ env.daemonRunning => socketFile

NextStart ==
    \/ Start
    \/ CheckExistingDaemon
    \/ StaleUnlinked
    \/ StartSocketServer
    \/ Boot
    \/ \E f \in BagToSet(threads) : WaitForReadyPoll(f)
    \/ \E c \in DOMAIN procs, code \in ExitCodes : ChildExit(c, code)
    \/ \E probe \in [Probed -> BOOLEAN] : RunHealthChecks(probe)
    \/ WriteStatus

SpecStart == InitStart /\ [][NextStart]_vars

\* explicit stops of one service that is left to the restart engine otherwise;
\* the 5 s timer of a stopService that still waits does elapse
GraceElapses == \E f \in BagToSet(threads) : StopTimeout(f)
InitStop == config \in RestartConfigs /\ InitState /\ logFiles = NoFiles
NextStopLive ==
    \/ Boot
    \/ \E name \in Services : StopRunning(name)
    \/ GraceElapses
    \/ \E c \in DOMAIN procs, code \in ExitCodes : ChildExit(c, code)
    \/ \E c \in DOMAIN procs : ChildError(c)
    \/ \E name \in Services : RestartTimer(name)
    \/ \E probe \in [Probed -> BOOLEAN] : RunHealthChecks(probe)
SpecStopLive == InitStop /\ [][NextStopLive]_vars /\ WF_vars(GraceElapses)

\* the health monitor: one service with an http health check, its process
\* exiting and being stopped while the monitor polls
HealthConfigs ==
    {Cfg(<< >>, <<"web">>, [web |-> << >>], p, 1, "http", TRUE, NoTarget) :
        p \in {"unset", "never"}}
InitHealth == config \in HealthConfigs /\ InitState /\ logFiles = NoFiles
NextHealth ==
    \/ Boot
    \/ \E probe \in [Probed -> BOOLEAN] : RunHealthChecks(probe)
    \/ \E f \in BagToSet(threads), healthy \in BOOLEAN, probe \in [Probed -> BOOLEAN] :
            FetchDone(f, healthy, probe)
    \/ \E c \in DOMAIN procs, code \in ExitCodes : ChildExit(c, code)
    \/ \E name \in Services : RestartTimer(name)
    \/ \E name \in Services : StopRunning(name)
    \/ GraceElapses
SpecHealth == InitHealth /\ [][NextHealth]_vars

\* a service left to the restart engine until it is given up: the number of
\* its spawns is bounded by maxRestarts, which is the default or large enough
\* for the delay to reach its cap
BackoffConfigs ==
    {Cfg(<< >>, <<"web">>, [web |-> << >>], p, m, "none", TRUE, NoTarget) :
        p \in {"unset", "on-failure", "always"}, m \in {Unset, 2 * MaxSpawns + 1}}
InitBackoff == config \in BackoffConfigs /\ InitState /\ logFiles = NoFiles

BackoffExit(c, code) ==
    /\ Idle /\ procs[c].ok
    /\ SetWorld(childExit(World, c, code))
    /\ lastExit' = ExitEvent("exit", procs[c].name, code)
    /\ UNCHANGED <<cmds, received>>

BackoffTimer(name) ==
    /\ Idle /\ BagIn(name, timers)
    /\ SetWorld(restartTimer(World, name))
    /\ UNCHANGED <<cmds, lastExit, received>>

NextBackoff ==
    \/ Boot
    \/ \E c \in DOMAIN procs, code \in ExitCodes : BackoffExit(c, code)
    \/ \E name \in Services : BackoffTimer(name)

SpecBackoff == InitBackoff /\ [][NextBackoff]_vars

\* waits for a dependency, at startup and in start commands that arrive one by
\* one on the connection: a service that depends on a task, or on a service and a task;
\* startup starts everything or db alone; the 30 s of a wait that still waits
\* do elapse
WaitConfigs ==
    {Cfg(<<"migrate">>, <<"web", "db">>, [migrate |-> << >>, web |-> d, db |-> << >>],
         "never", Unset, "none", TRUE, t) :
        d \in {<<"migrate">>, <<"db", "migrate">>}, t \in {NoTarget, "db"}}
InitWait == config \in WaitConfigs /\ InitState /\ logFiles = NoFiles
StartLines == {Command("start", name) : name \in {"migrate", "web"}}
WaitElapses == \E f \in BagToSet(threads) : WaitForReadyTimeout(f)
NextWait ==
    \/ Boot
    \/ \E line \in StartLines : SocketData(<<line>>)
    \/ \E f \in BagToSet(threads) : WaitForReadyPoll(f)
    \/ WaitElapses
    \/ \E c \in DOMAIN procs, code \in ExitCodes : ChildExit(c, code)
    \/ \E probe \in [Probed -> BOOLEAN] : RunHealthChecks(probe)
SpecWait == InitWait /\ [][NextWait]_vars /\ WF_vars(WaitElapses)

\* ================================================================== claims
LiveChildren(name) == {c \in DOMAIN procs : procs[c].name = name /\ procs[c].ok}

\* the dependency relation of the configuration, as a relation: n depends on d
DirectDeps(n) == Range(DependsOn(n))
RECURSIVE Closure(_)
Closure(S) == LET T == S \cup UNION {DirectDeps(d) : d \in S}
              IN IF T = S THEN S ELSE Closure(T)
\* every name n depends on, directly or through others
TransDeps(n) == Closure(DirectDeps(n))
HasCycle == \E n \in Declared : n \in TransDeps(n)
HasUnknownDep == \E n \in Declared : \E d \in DirectDeps(n) : d \notin Declared
Position(seq, n) == CHOOSE i \in 1..Len(seq) : seq[i] = n
IsPrefix(p, seq) == Len(p) <= Len(seq) /\ \A i \in 1..Len(p) : p[i] = seq[i]

\* C1: a service never has two live child processes at once, however its
\* start requests interleave.
C1_OneLiveChild == \A s \in Services : Cardinality(LiveChildren(s)) <= 1

\* C2: a task's command is spawned at most once in the daemon's lifetime,
\* however its start requests interleave.
C2_TaskSpawnedOnce == \A t \in Tasks : nspawn[t] <= 1

\* C3: whenever a task or service is spawned, each of its direct dependencies
\* has reached its ready state before (healthy for a service, completed for a task).
C3_DepsReadyBeforeSpawn == spawnedEarly = {}
C3_Witness ==
    \E n \in Declared : nspawn[n] > 0 /\ DirectDeps(n) # {} /\ DirectDeps(n) \subseteq everReady

\* C4: for an acyclic graph the resolved order holds every declared entity
\* exactly once, each after all its direct and transitive dependencies.
C4_TopoOrderValid ==
    ~HasCycle =>
        LET order == topoSort.result
        IN /\ topoSort.err = NoErr
           /\ \A n \in Declared : Cardinality({i \in 1..Len(order) : order[i] = n}) = 1
           /\ \A n \in Declared : \A d \in TransDeps(n) :
                 /\ d \in Range(order)
                 /\ Position(order, d) < Position(order, n)
C4_Witness ==
    /\ ~HasCycle /\ boot = "done"
    /\ \E n \in Declared : \E d \in TransDeps(n) : d \notin DirectDeps(n)

\* C5: with a dependency cycle in the graph, startup fails with a circular
\* dependency error that names an entity on a cycle, and spawns nothing.
C5_CycleFailsFast ==
    HasCycle =>
        /\ boot \in {"pending", "failed"}
        /\ boot = "failed" =>
              /\ bootError.type = "circular"
              /\ bootError.name \in TransDeps(bootError.name)
              /\ daemon = "exited"
        /\ procs = << >>
        /\ \A n \in Declared : nspawn[n] = 0
C5_Witness == HasCycle /\ boot = "failed" /\ bootError.name \in Declared

\* C6: with a dependsOn name that no task or service declares, startup fails,
\* and it fails before any process is spawned.
C6_UnknownDepFailsFirst ==
    HasUnknownDep =>
        /\ boot \in {"pending", "failed"}
        /\ \A n \in Declared : nspawn[n] = 0

\* C7: with a target, startup spawns the target and its transitive
\* dependencies, in resolved order, and nothing else: every other declared
\* entity stays pending without a process.
C7_Needed == TransDeps(config.onlyService) \cup {config.onlyService}
C7_TargetClosureOnly ==
    config.onlyService # NoTarget =>
        LET expected == Filter(topoSort.result, C7_Needed)
        IN /\ IsPrefix(bootSpawns, expected)
           /\ boot = "done" => bootSpawns = expected
           /\ \A t \in Tasks \ C7_Needed :
                 /\ tasks[t].status = "pending" /\ tasks[t].process = NoProc
                 /\ nspawn[t] = 0
           /\ \A s \in Services \ C7_Needed :
                 /\ services[s].status = "pending" /\ services[s].process = NoProc
                 /\ nspawn[s] = 0
C7_Witness ==
    /\ config.onlyService # NoTarget /\ boot = "done"
    /\ Len(bootSpawns) >= 2
    /\ Declared \ C7_Needed # {}

\* C8: once crashed (restart count above maxRestarts), a service stays crashed
\* and is not spawned until a client sends start or restart for it. Stated for
\* the steps after startup in which no command arrives and none is in progress.
C8_ClientBusy == \E f \in BagToSet(threads) : f.owner.kind = "client"
C8_CrashedStays ==
    [][\A s \in Services :
          (services[s].status = "crashed" /\ boot = "done" /\ cmds' = cmds /\ ~C8_ClientBusy)
              => (services'[s].status = "crashed" /\ nspawn'[s] = nspawn[s])]_vars

\* C9: no step decreases or resets a service's restart count.
C9_RestartsMonotone ==
    [][\A s \in Services : services'[s].restarts >= services[s].restarts]_vars
C9_Witness ==
    \E s \in Services : services[s].restarts >= 1 /\ nspawn[s] >= 2 /\ cmds >= 1

\* C10: a non-zero exit of a service with policy on-failure (or none), the
\* daemon not shutting down, adds exactly one to its restart count and leaves
\* the exit code in lastError.
C10_Exited(s) == \E c \in DOMAIN procs : procs[c].name = s /\ procs[c].ok /\ c \notin DOMAIN procs'
C10_FailureCounted ==
    [][\A s \in Services :
          (/\ C10_Exited(s)
           /\ lastExit'.code >= 1
           /\ config.restartPolicy[s] \in {"on-failure", "unset"}
           /\ ~shuttingDown)
          => /\ services'[s].restarts = services[s].restarts + 1
             /\ CodeText(lastExit'.code) \in Range(services'[s].lastError)]_vars
C10_Witness ==
    /\ lastExit.kind = "exit" /\ lastExit.code = 1 /\ ~shuttingDown
    /\ lastExit.name \in Services
    /\ config.restartPolicy[lastExit.name] \in {"on-failure", "unset"}
    /\ services[lastExit.name].restarts = 1
    /\ services[lastExit.name].lastError = ExitCodeText(1)

\* a child of s had its exit or error event in this step
ProcGone(s) == \E c \in DOMAIN procs : procs[c].name = s /\ c \notin DOMAIN procs'
\* a command of a client is in progress
ClientBusy == \E f \in BagToSet(threads) : f.owner.kind = "client"

\* C11: a service with restartPolicy never keeps restart count 0 and never has
\* a restart scheduled; any exit of it leaves it stopped (unless the restart
\* command that was waiting for the exit starts it again in the same run), and
\* after startup it is spawned only by a client's command.
C11_NeverNoRestart ==
    [][\A s \in Services : config.restartPolicy[s] = "never" =>
          /\ services'[s].restarts = 0
          /\ ~BagIn(s, timers')
          /\ ProcGone(s) => (services'[s].status = "stopped" \/ nspawn'[s] > nspawn[s])
          /\ (boot = "done" /\ cmds' = cmds /\ ~ClientBusy) => nspawn'[s] = nspawn[s]]_vars
C11_Witness ==
    \E s \in Services :
        /\ config.restartPolicy[s] = "never"
        /\ lastExit = ExitEvent("exit", s, 1)
        /\ services[s].status = "stopped" /\ services[s].restarts = 0
        /\ boot = "done" /\ timers = EmptyBag

\* a child of s had its exit event in this step, with this code
ExitedWith(s, code) ==
    /\ \E c \in DOMAIN procs : procs[c].name = s /\ procs[c].ok /\ c \notin DOMAIN procs'
    /\ lastExit' = ExitEvent("exit", s, code)
\* this step set a restart timer for s / ran one
TimerSet(s) == CopiesIn(s, timers') = CopiesIn(s, timers) + 1
TimerFired(s) == CopiesIn(s, timers') = CopiesIn(s, timers) - 1

C13_CleanExitStops ==
    [][\A s \in Services :
          (ExitedWith(s, 0) /\ config.restartPolicy[s] \in {"on-failure", "unset"})
              => /\ services'[s].status = "stopped" \/ nspawn'[s] > nspawn[s]
                 /\ services'[s].restarts = services[s].restarts
                 /\ timers' = timers]_vars
C13_Witness ==
    \E s \in Services :
        /\ config.restartPolicy[s] \in {"on-failure", "unset"}
        /\ lastExit = ExitEvent("exit", s, 0)
        /\ services[s].status = "stopped" /\ services[s].process = NoProc
        /\ ~shuttingDown /\ cmds = 0

\* C14: left to the restart engine, a service whose every exit is one its policy
\* restarts is spawned at most maxRestarts + 1 times, and in the end it stays
\* crashed, spawned maxRestarts + 1 times.
C14_RestartsBounded ==
    /\ [](\A s \in Services : nspawn[s] <= MaxRestartsOf(s) + 1)
    /\ <>[](\A s \in Services :
              services[s].status = "crashed" /\ nspawn[s] = MaxRestartsOf(s) + 1)
C14_Witness ==
    \E s \in Services :
        /\ MaxRestartsOf(s) >= 1
        /\ services[s].status = "crashed" /\ services[s].process = NoProc
        /\ services[s].restarts = MaxRestartsOf(s) + 1
        /\ nspawn[s] = MaxRestartsOf(s) + 1

\* C15: a service without a health check (type none, or none configured) is
\* healthy as soon as its process is spawned: whenever it has a process, its
\* status is healthy.
C15_NoneHealthyOnSpawn ==
    \A s \in Services \ Probed :
        (services[s].process # NoProc /\ services[s].pid # NoProc /\ ~shuttingDown)
            => services[s].status = "healthy"

\* this step is a health poll and nothing else: no process, suspended call,
\* timer or request is touched
PollStep ==
    /\ procs' = procs /\ threads' = threads /\ timers' = timers /\ nspawn' = nspawn
    /\ cmds' = cmds /\ pendingDown' = pendingDown /\ shuttingDown' = shuttingDown

\* C16: a service with a port health check becomes healthy only in a health
\* poll that found its port listening while its process is tracked, and every
\* spawn of it leaves it not healthy (starting) until such a poll.
C16_PortHealthyOnlyByPoll ==
    [][\A s \in Services : HealthCheckOf(s) = "port" =>
          /\ (services'[s].status = "healthy" /\ services[s].status # "healthy")
                => /\ PollStep /\ lastProbe'[s]
                   /\ services[s].process # NoProc
                   /\ services'[s].process = services[s].process
          /\ nspawn'[s] > nspawn[s] => services'[s].status = "starting"]_vars
C16_Witness ==
    \E s \in Services :
        /\ HealthCheckOf(s) = "port" /\ services[s].status = "healthy"
        /\ lastProbe[s] /\ services[s].process # NoProc
        /\ nspawn[s] >= 2

\* C17: a health-checked service whose process has died is not left healthy:
\* whenever its status is healthy it has a process.
C17_HealthyHasProcess ==
    \A s \in Probed : services[s].status = "healthy" => services[s].process # NoProc

\* the entities start()'s startAllServices is to start
StartSet == IF config.onlyService = NoTarget THEN Declared ELSE C7_Needed
FailedTasks == {t \in Tasks : tasks[t].status = "failed"}
DependsOnFailed(n) == (TransDeps(n) \cup {n}) \cap FailedTasks # {}

\* C18: when startup's start-all is over and a task has failed in it, the
\* entities that depend on a failed task were not spawned, and every other
\* entity it was to start was spawned.
C18_FailureStaysInBranch ==
    (/\ ~HasCycle /\ ~HasUnknownDep
     /\ boot \in {"done", "failed"} /\ bootError.type \in {"none", "taskfailed"}
     /\ \E t \in FailedTasks : tasks[t].exitCode >= 1)
        => \A n \in StartSet :
              IF DependsOnFailed(n) THEN n \in FailedTasks \/ nspawn[n] = 0
              ELSE nspawn[n] > 0

\* C19: after a task's or service's process has failed (a spawn error or a
\* non-zero exit), the daemon is still running, unless it was told to shut down.
C19_SupervisorSurvives ==
    (/\ lastExit.kind = "error" \/ (lastExit.kind = "exit" /\ lastExit.code >= 1)
     /\ ~shuttingDown)
        => daemon = "up"

\* C20: when a shutdown has run to its end no task or service process is left
\* that was not told to stop, and during a shutdown a process is sent its
\* termination signal only when every process of an entity that depends on its
\* entity has exited or been force-killed.
C20_StepInReverseOrder ==
    \A c \in DOMAIN procs :
        (c \in DOMAIN procs' /\ procs[c].sig = "none" /\ procs'[c].sig = "term" /\ shuttingDown')
            => \A d \in DOMAIN procs' :
                  procs[c].name \in TransDeps(procs'[d].name) => procs'[d].sig = "kill"
C20_DownStopsAllInReverse ==
    /\ []((daemon = "exited" /\ shuttingDown) => \A c \in DOMAIN procs : procs[c].sig # "none")
    /\ [][C20_StepInReverseOrder]_vars

\* C21: when shutdown completes (the daemon process exits with code 0), the
\* socket file is gone and the status file last written is all-stopped: no
\* service is starting, healthy or unhealthy, no task is running, and no
\* service or task carries a pid.
ShutdownCompleted == daemon = "exited" /\ exitCode = 0
C21_FinalSnapshotAllStopped ==
    ShutdownCompleted =>
        /\ ~socketFile
        /\ \A s \in Services :
              /\ statusFile.services[s].status \notin {"starting", "healthy", "unhealthy"}
              /\ statusFile.services[s].pid = NoProc
        /\ \A t \in Tasks :
              /\ statusFile.tasks[t].status # "running"
              /\ statusFile.tasks[t].pid = NoProc

\* C22: on the connection, a response answers a non-empty line received, no line
\* is answered twice, and the responses are written in the order the lines were
\* received, also when a line of an earlier chunk is still being handled when
\* a later chunk arrives.
C22_ResponsesInOrder ==
    /\ \A i \in 1..Len(sent) :
          sent[i].id \in 1..Len(received) /\ received[sent[i].id].kind # "blank"
    /\ \A i, j \in 1..Len(sent) : i < j => sent[i].id < sent[j].id

\* C23: a line that JSON.parse rejects is answered with {ok: false, error}; when
\* it is the first line of a chunk, that response is written at once, nothing
\* else of the daemon's state changes, and the lines after it in the chunk are
\* handled as they would be without it.
SyntaxFailure == [ok |-> FALSE, error |-> [type |-> "syntax", name |-> NoTarget]]
C23_Arrives(chunk) == received' = received \o chunk /\ chunk[1].kind = "garbage"
C23_GarbageAnswered ==
    [][\A chunk \in Chunks :
          C23_Arrives(chunk) =>
              World' = socketData([World EXCEPT !.sent = Append(@, [id |-> Len(received) + 1,
                                                                    body |-> SyntaxFailure])],
                                  ConnOwner, Len(received) + 1, Tail(chunk))]_vars
C23_Witness ==
    /\ Len(received) = 2 /\ received[1].kind = "garbage" /\ received[2].cmd = "start"
    /\ Len(sent) = 2 /\ sent[1] = [id |-> 1, body |-> SyntaxFailure]
    /\ sent[2] = [id |-> 2, body |-> Ok]
    /\ tasks["migrate"].status = "completed"

\* C24: a line that parses to a message whose cmd tag is none of status, start,
\* stop, restart, logs, down is answered with {ok: false, error}.
KnownTags == {"status", "start", "stop", "restart", "logs", "down"}
UnknownTag(line) == line.kind = "json" /\ line.cmd \notin KnownTags
IsFailure(body) == "ok" \in DOMAIN body /\ ~body.ok /\ "error" \in DOMAIN body
C24_UnknownTagIsError ==
    \A i \in 1..Len(sent) : UnknownTag(received[sent[i].id]) => IsFailure(sent[i].body)

\* C25: in every state the daemon can be in, a restart command has the same
\* effect on the services, the tasks and the processes as a stop command
\* followed by a start command for the same name (or for no name), and when
\* the commands return at once, restart's response is the response of that start.
RestartEffect(n) == socketData(World, ConnOwner, Len(received), <<Command("restart", n)>>)
StopStartEffect(n) ==
    socketData(World, ConnOwner, Len(received), <<Command("stop", n), Command("start", n)>>)
SameEffect(A, B) ==
    /\ A.services = B.services /\ A.tasks = B.tasks /\ A.procs = B.procs
    /\ A.nspawn = B.nspawn /\ A.timers = B.timers
    /\ (A.threads = threads /\ B.threads = threads
            => A.sent[Len(A.sent)].body = B.sent[Len(B.sent)].body)
C25_RestartIsStopStart ==
    Idle => \A n \in Declared \cup {NoTarget} : SameEffect(RestartEffect(n), StopStartEffect(n))

\* C26: when the daemon process has ended through the handler of an uncaught
\* exception or an unhandled rejection, every child process the daemon tracked
\* (as the process of a service or of a task) has been sent SIGKILL and the
\* socket file is gone.
EndedByFault == daemon = "exited" /\ exitCode = 1 /\ boot # "failed"
Tracked ==
    ({services[s].pid : s \in Services} \cup {tasks[t].pid : t \in Tasks}) \ {NoProc}
C26_FaultKillsChildren ==
    EndedByFault => /\ \A c \in Tracked : c \in DOMAIN procs => procs[c].sig = "kill"
                    /\ ~socketFile
C26_Witness ==
    /\ EndedByFault /\ ~socketFile
    /\ \E t \in Tasks : tasks[t].pid \in DOMAIN procs /\ procs[tasks[t].pid].sig = "kill"

\* C27: the response to a logs command for a name without a log file is
\* {ok: false, error}; for a name with a log file it is {ok: true, data} where
\* data holds exactly the last min(N, number of lines of the file) lines of the
\* file, N being the lines field (at least 1), 50 when it is omitted.
FileLines(text) ==
    LET p == split(text) IN IF p[Len(p)] = << >> THEN SubSeq(p, 1, Len(p) - 1) ELSE p
LastLines(ls, n) == SubSeq(ls, Len(ls) - n + 1, Len(ls))
MinOf(a, b) == IF a < b THEN a ELSE b
C27_Expected(line, body) ==
    IF line.name \notin DOMAIN logFiles THEN IsFailure(body)
    ELSE LET ls == FileLines(logFiles[line.name])
             n == IF line.lines = Unset THEN 50 ELSE line.lines
         IN /\ "data" \in DOMAIN body /\ body.ok
            /\ FileLines(body.data) = LastLines(ls, MinOf(n, Len(ls)))
C27_LogsReturnsLastLines ==
    [][Len(sent') > Len(sent) /\ received'[sent'[Len(sent')].id].cmd = "logs"
            /\ received'[sent'[Len(sent')].id].lines # 0
          => C27_Expected(received'[sent'[Len(sent')].id], sent'[Len(sent')].body)]_vars

\* C28: a start command for a service that has a live process, or for a task
\* whose status is completed or failed, spawns nothing, changes no field of any
\* service or task, suspends nothing, and is answered {ok: true} at once.
AlreadyStarted(n) ==
    \/ n \in Services /\ services[n].process # NoProc /\ services[n].pid # NoProc
    \/ n \in Tasks /\ tasks[n].status \in {"completed", "failed"}
C28_StartIsNoOp ==
    [][\A n \in Declared :
          received' = Append(received, Command("start", n)) /\ AlreadyStarted(n)
              => /\ services' = services /\ tasks' = tasks /\ procs' = procs
                 /\ nspawn' = nspawn /\ timers' = timers /\ threads' = threads
                 /\ sent' = Append(sent, [id |-> Len(received) + 1, body |-> Ok])]_vars
C28_Witness ==
    /\ received = <<Command("start", "migrate"), Command("start", "web")>>
    /\ sent = <<[id |-> 1, body |-> Ok], [id |-> 2, body |-> Ok]>>
    /\ bootSpawns = <<"migrate", "web">>
    /\ nspawn = [migrate |-> 1, web |-> 1]
    /\ tasks["migrate"].status = "completed" /\ services["web"].process # NoProc

\* C29: for a project directory cwd and an entity name s the paths nest under
\* cwd/.sup: getSupDir is cwd/.sup, getSocketPath cwd/.sup/sup.sock,
\* getStatusPath cwd/.sup/status.json, getLogsDir cwd/.sup/logs, getLogPath
\* cwd/.sup/logs/s.log, and another name has another log file.
C29_PathsNest ==
    paths # NoCall =>
        LET cwd == paths.cwd
            sup == cwd \o <<Sep, ".sup">>
        IN /\ paths.supDir = sup
           /\ paths.socketPath = sup \o <<Sep, "sup.sock">>
           /\ paths.statusPath = sup \o <<Sep, "status.json">>
           /\ paths.logsDir = sup \o <<Sep, "logs">>
           /\ paths.logPath = sup \o <<Sep, "logs", Sep>> \o paths.service \o <<".log">>
           /\ \A other \in EntityNames :
                 other # paths.service => getLogPath(other, cwd) # paths.logPath

\* C30: where no client sends start or restart: in the step that completes a
\* stop command for a service (its response is written), the service gets
\* status stopped and its restart count stays what it was; and from then on
\* the service keeps status stopped, its restart count stays the same and no
\* process is spawned for it, whatever its restart policy.
StopDone(s) ==
    \E i \in 1..Len(sent) : received[sent[i].id] = Command("stop", s) /\ sent[i].body = Ok
StaysStopped(s) ==
    /\ services'[s].status = "stopped"
    /\ services'[s].restarts = services[s].restarts
    /\ nspawn'[s] = nspawn[s]
C30_StopStays ==
    [][\A s \in Services :
          /\ (StopDone(s)' /\ ~StopDone(s)) =>
                services'[s].status = "stopped" /\ services'[s].restarts = services[s].restarts
          /\ StopDone(s) => StaysStopped(s)]_vars

\* C31: once shuttingDown is set no task or service process is spawned, neither
\* by a start that was waiting for a dependency nor by a restart timer set
\* before.
C31_NoSpawnInShutdown == [][shuttingDown => nspawn' = nspawn]_vars

\* C32: when start()'s startAllServices has thrown (a dependency cycle, a failed
\* task, a wait for a dependency that timed out) and the daemon process has
\* ended, the socket file is gone and no child process is left that was not
\* told to stop.
StartupAborted == boot = "failed" /\ daemon = "exited"
C32_AbortCleansUp ==
    StartupAborted => /\ ~socketFile
                      /\ \A c \in DOMAIN procs : procs[c].sig # "none"

\* C33: the shutdown sequence runs at most once (there is never more than one
\* call of shutdown past its test of shuttingDown), a call of shutdown made
\* while shuttingDown is set changes nothing, and the setImmediate callback of
\* a down command that runs while shuttingDown is set changes nothing else.
ShutdownBodies ==
    LET fs == {f \in BagToSet(threads) : f.owner = ShutdownOwner}
    IN IF fs = {} THEN 0 ELSE SumOver([f \in fs |-> CopiesIn(f, threads)], fs)
C33_ShutdownOnce ==
    /\ [](ShutdownBodies <= 1 /\ (shuttingDown => shutdown(World) = World))
    /\ [][(shuttingDown /\ pendingDown' < pendingDown)
            => World' = [World EXCEPT !.pendingDown = @ - 1]]_vars
C33_Witness ==
    /\ shuttingDown /\ daemon = "up" /\ ShutdownBodies = 1
    /\ cmds = 1 /\ pendingDown = 0
    /\ Len(received) = 2 /\ Len(sent) = 2

\* C34: an exit (or spawn error) of a service's process while shuttingDown is
\* set leaves the service stopped (unless a command that was waiting for the
\* exit spawns it again in the same run), does not change its restart count
\* and sets no restart timer; a restart timer that runs while shuttingDown is
\* set spawns nothing, suspends nothing and changes no service.
C34_QuietInShutdown ==
    [][\A s \in Services :
          /\ (ProcGone(s) /\ shuttingDown)
                => /\ services'[s].status = "stopped" \/ nspawn'[s] > nspawn[s]
                   /\ services'[s].restarts = services[s].restarts
                   /\ timers' = timers
          /\ (TimerFired(s) /\ shuttingDown)
                => (nspawn' = nspawn /\ threads' = threads /\ services' = services
                        /\ procs' = procs)]_vars
C34_Witness ==
    /\ Services = {"web", "db"} /\ shuttingDown
    /\ config.restartPolicy["web"] = "unset"
    /\ lastExit = ExitEvent("exit", "web", NullCode)
    /\ services["web"].status = "stopped" /\ services["web"].restarts = 0
    /\ services["db"].restarts = 1 /\ nspawn["db"] = 1 /\ timers = EmptyBag

\* C35: when start() finds a daemon accepting connections on the socket file, or
\* the port of a port health check bound, the server never listens, the
\* intervals are never set and no process is spawned: start() gets no further
\* than its checks, and it ends with the error of the conflict.
Conflict == env.daemonRunning \/ (env.portsInUse \cap PortChecked) # {}
C35_ConflictAbortsEarly ==
    Conflict =>
        /\ server = "none" /\ ~intervals
        /\ procs = << >> /\ \A n \in Declared : nspawn[n] = 0
        /\ boot \in {"new", "probe", "unlink", "failed"}
        /\ boot = "failed" =>
              /\ daemon = "exited" /\ exitCode = 1
              /\ bootError.type = (IF env.daemonRunning THEN "alreadyrunning" ELSE "portconflict")
C35_Witness ==
    /\ ~env.daemonRunning /\ env.portsInUse # {}
    /\ boot = "failed" /\ bootError.type = "portconflict"
    /\ server = "none" /\ ~socketFile

\* C36: a stop command for a service that is running sends SIGTERM to its
\* process and nothing stronger; SIGKILL is sent to a process only when the
\* 5 s timer of a stopService that still waits for its exit elapses; the step
\* that answers the stop command leaves the service stopped; and every stop
\* command is answered, unless the daemon process ends before.
StopWaiting(c) == \E f \in BagToSet(threads) : f.pc = "stopwait" /\ f.child = c
StopReturned(c) ==
    \E f \in BagToSet(threads) :
        f.pc = "stopwait" /\ f.child = c /\ CopiesIn(f, threads') < CopiesIn(f, threads)
C36_StepEscalates ==
    /\ \A c \in DOMAIN procs \cap DOMAIN procs' :
          /\ (StopWaiting(c)' /\ ~StopWaiting(c))
                => procs'[c].sig = (IF procs[c].sig = "none" THEN "term" ELSE procs[c].sig)
          /\ (procs'[c].sig = "kill" /\ procs[c].sig # "kill")
                => (procs[c].sig = "term" /\ StopReturned(c))
    /\ \A s \in Services : (StopDone(s)' /\ ~StopDone(s)) => services'[s].status = "stopped"
C36_StopEscalatesAndReturns ==
    /\ [][C36_StepEscalates]_vars
    /\ \A i \in 1..MaxLines :
          (Len(received) >= i /\ received[i].cmd = "stop")
              ~> (daemon = "exited" \/ \E j \in 1..Len(sent) : sent[j].id = i /\ sent[j].body = Ok)
C36_Witness ==
    \E c \in DOMAIN procs :
        /\ procs[c].sig = "kill" /\ StopDone(procs[c].name)
        /\ services[procs[c].name].status = "stopped"
        /\ services[procs[c].name].process = c

\* C37: a step gives a service the status healthy or unhealthy only if the
\* service had a process before the step: a service without a process keeps
\* its status across every health poll, also across the end of a probe that
\* began while it had a process.
C37_HealthNeedsProcess ==
    [][\A s \in Services :
          (services'[s].status \in {"healthy", "unhealthy"}
                /\ services'[s].status # services[s].status)
              => services[s].process # NoProc]_vars

Waiting == \E f \in BagToSet(threads) : f.pc = "deps"
ThrownBy(f, err) ==
    IF f.owner = BootOwner
    THEN boot' = "failed" /\ bootError' = err
    ELSE Len(sent') > Len(sent) /\ sent'[Len(sent) + 1].body = Fail(err)
C39_WaitEnds(f) ==
    LET n == Head(f.todo).name
        d == DependsOn(n)[f.k]
        failed == ThrownBy(f, Error("taskfailed", d))
        timeout == ThrownBy(f, Error("timeout", d))
    IN /\ nspawn'[n] > nspawn[n]
             => \A j \in f.k..Len(DependsOn(n)) : ReadyNow(World, DependsOn(n)[j]) = "ready"
       /\ ReadyNow(World, d) = "failed" => (failed \/ timeout)
       /\ ReadyNow(World, d) = "wait" => timeout
       /\ failed => (d \in Tasks /\ tasks[d].status = "failed")
       /\ (failed \/ timeout) => nspawn'[n] = nspawn[n]
C39_WaitsTerminate ==
    /\ [][\A f \in BagToSet(threads) :
             (/\ f.pc = "deps" /\ CopiesIn(f, threads') < CopiesIn(f, threads)
              /\ (daemon' = "up" \/ f.owner = BootOwner))
                => C39_WaitEnds(f)]_vars
    /\ Waiting ~> (~Waiting \/ daemon = "exited")
C39_Witness ==
    /\ daemon = "up" /\ boot = "done" /\ tasks["migrate"].status = "failed"
    /\ nspawn = [migrate |-> 1, web |-> 0, db |-> 1]
    /\ threads = EmptyBag /\ Len(received) = 2
    /\ Len(sent) = 2 /\ sent[2] = [id |-> 2, body |-> Fail(Error("taskfailed", "migrate"))]

\* C40: a task's status moves only from pending to running and from running to
\* completed or failed; a task that is completed or failed keeps its status,
\* also when several start requests for it are under way.
C40_TaskStatusMoves ==
    [][\A t \in Tasks :
          \/ tasks'[t].status = tasks[t].status
          \/ tasks[t].status = "pending" /\ tasks'[t].status = "running"
          \/ tasks[t].status = "running" /\ tasks'[t].status \in {"completed", "failed"}]_vars
====
